---- MODULE Spec2Model ----
(***************************************************************************)
(* A model of go-vpack: the mode-tagged Buffer, the primitive and          *)
(* composite codecs, the version helpers and the entry points ToBytes,     *)
(* FromBytes and FromBytesInto.                                            *)
(*                                                                         *)
(* Go's int, int64 and uint64 are 64 bits wide (64-bit platform).  A       *)
(* 64-bit value is a word: its 8 bytes, least significant first, so that   *)
(* two's complement wrap-around, zigzag and the 7-bit grouping of varints  *)
(* are computed as the code computes them.  A byte is a number in 0..255,  *)
(* a []byte or string a sequence of bytes.                                 *)
(*                                                                         *)
(* A Go panic unwinds the traversal: it is the absorbing flag Panic that   *)
(* travels with the buffer; every codec is a no-op once it is set.         *)
(***************************************************************************)
EXTENDS Integers, Sequences, FiniteSets, TLC

(***************************************************************************)
(* 64-bit words: 8 bytes, least significant first                          *)
(***************************************************************************)
Tup8(f(_)) == <<f(1), f(2), f(3), f(4), f(5), f(6), f(7), f(8)>>

Pow2(k) == 2^k

Bit(n, k) == (n \div Pow2(k)) % 2

\* uint64(n) for a small natural number n (below 2^30)
FromNat(n) == Tup8(LAMBDA k : IF k <= 4 THEN (n \div Pow2(8 * (k - 1))) % 256 ELSE 0)

\* ^x
Not(x) == Tup8(LAMBDA k : 255 - x[k])

\* int64(n) for a small integer n, in two's complement
FromInt(n) == IF n >= 0 THEN FromNat(n) ELSE Not(FromNat(-n - 1))

Zero64 == FromNat(0)
MaxInt64 == <<255, 255, 255, 255, 255, 255, 255, 127>>
MinInt64 == <<0, 0, 0, 0, 0, 0, 0, 128>>
MaxUint64 == <<255, 255, 255, 255, 255, 255, 255, 255>>

\* x << 1, x >> 1 and x >> 7 of a uint64
Shl1(x) == Tup8(LAMBDA k : ((2 * x[k]) % 256) + (IF k > 1 THEN x[k - 1] \div 128 ELSE 0))
Shr1(x) == Tup8(LAMBDA k : (x[k] \div 2) + (IF k < 8 THEN (x[k + 1] % 2) * 128 ELSE 0))
Shr7(x) == Tup8(LAMBDA k : (x[k] \div 128) + (IF k < 8 THEN (x[k + 1] % 128) * 2 ELSE 0))

\* a | b of two bytes, x | y of two words
OrByte(a, b) ==
    LET or(j) == IF Bit(a, j) = 1 \/ Bit(b, j) = 1 THEN Pow2(j) ELSE 0
    IN  ((or(0) + or(1)) + (or(2) + or(3))) + ((or(4) + or(5)) + (or(6) + or(7)))
Or(x, y) == Tup8(LAMBDA k : OrByte(x[k], y[k]))

\* uint64(b) << s for a byte b: the bits shifted past bit 63 are lost
ByteShl(b, s) ==
    LET v == b * Pow2(s % 8)
        q == s \div 8
    IN  Tup8(LAMBDA k : IF k = q + 1 THEN v % 256
                        ELSE IF k = q + 2 THEN v \div 256 ELSE 0)

IsNeg(x) == x[8] >= 128

\* x < y as unsigned 64-bit numbers
ULess(x, y) ==
    \E k \in 1..8 : /\ x[k] < y[k]
                    /\ \A j \in (k + 1)..8 : x[j] = y[j]

\* x < y as signed 64-bit numbers
SLess(x, y) ==
    IF IsNeg(x) # IsNeg(y) THEN IsNeg(x) ELSE ULess(x, y)

\* x + y modulo 2^64
RECURSIVE AddFrom(_, _, _, _)
AddFrom(x, y, k, carry) ==
    IF k > 8 THEN <<>>
    ELSE <<(x[k] + y[k] + carry) % 256>>
           \o AddFrom(x, y, k + 1, (x[k] + y[k] + carry) \div 256)
Add(x, y) == AddFrom(x, y, 1, 0)

\* x * y modulo 2^64: column k sums the byte products x[i] * y[k + 1 - i]
RECURSIVE Column(_, _, _, _)
Column(x, y, k, i) ==
    IF i > k THEN 0 ELSE (x[i] * y[k + 1 - i]) + Column(x, y, k, i + 1)

RECURSIVE MulFrom(_, _, _, _)
MulFrom(x, y, k, carry) ==
    IF k > 8 THEN <<>>
    ELSE <<(Column(x, y, k, 1) + carry) % 256>>
           \o MulFrom(x, y, k + 1, (Column(x, y, k, 1) + carry) \div 256)
Mul(x, y) == MulFrom(x, y, 1, 0)

\* x / d of a uint64 by a small d, by long division from the top byte down
RECURSIVE DivFrom(_, _, _, _)
DivFrom(x, d, k, rem) ==
    IF k = 0 THEN <<>>
    ELSE DivFrom(x, d, k - 1, (rem * 256 + x[k]) % d)
           \o <<(rem * 256 + x[k]) \div d>>
UDiv(x, d) == DivFrom(x, d, 8, 0)

\* -x and x - y modulo 2^64
Neg(x) == Add(Not(x), FromNat(1))
Sub(x, y) == Add(x, Neg(y))

\* x, as an int64, is a small integer: -2^30 <= x < 2^30
IsSmallNat(x) == x[4] < 64 /\ \A k \in 5..8 : x[k] = 0
IsSmall(x) == IF IsNeg(x) THEN IsSmallNat(Not(x)) ELSE IsSmallNat(x)

\* the value of a word known to be a small natural number, a small integer
ToNat(x) == x[1] + 256 * x[2] + 65536 * x[3] + 16777216 * x[4]
ToInt(x) == IF IsNeg(x) THEN -ToNat(Not(x)) - 1 ELSE ToNat(x)

(***************************************************************************)
(* encoding/binary: big endian and varints                                 *)
(***************************************************************************)
\* the n low bytes of x, most significant first
BigEndianBytes(x, n) == [i \in 1..n |-> x[n - i + 1]]

\* the word whose n low bytes are b[1..n], most significant first
BigEndianWord(b, n) == Tup8(LAMBDA k : IF k <= n THEN b[n - k + 1] ELSE 0)

\* an AppendUvarint that goes on while x >= 0x40: a fault C16_VarintBoundaries
\* rules out
RECURSIVE UvarintBytesEarly(_)
UvarintBytesEarly(x) ==
    IF ULess(x, FromNat(64))
    THEN <<x[1]>>
    ELSE <<(x[1] % 128) + 128>> \o UvarintBytesEarly(Shr7(x))

\* binary.AppendUvarint: for x >= 0x80 { append byte(x)|0x80; x >>= 7 }
RECURSIVE UvarintBytes(_)
UvarintBytes(x) ==
    IF ULess(x, FromNat(128))
    THEN <<x[1]>>
    ELSE <<(x[1] % 128) + 128>> \o UvarintBytes(Shr7(x))

\* binary.AppendVarint: ux := uint64(x) << 1; if x < 0 { ux = ^ux }
ZigZag(x) == IF IsNeg(x) THEN Not(Shl1(x)) ELSE Shl1(x)
VarintBytes(x) == UvarintBytes(ZigZag(x))

\* binary.ReadVarint: x := int64(ux >> 1); if ux&1 != 0 { x = ^x }
UnZigZag(ux) == IF ux[1] % 2 = 1 THEN Not(Shr1(ux)) ELSE Shr1(ux)

MaxVarintLen64 == 10

(***************************************************************************)
(* Buffer                                                                  *)
(***************************************************************************)
Serialize == "Serialize"
Deserialize == "Deserialize"

\* NewReader(data): the caller owns data; cap is the capacity of the caller's
\* slice (cap >= len), which decides whether Data[len+1:len+1] is in range
NewReader(data, cap) ==
    [Data |-> data, Pos |-> 0, Error |-> FALSE, Mode |-> Deserialize,
     Cap |-> cap, Panic |-> FALSE]

\* NewWriter(): make([]byte, 0, 64)
NewWriter ==
    [Data |-> <<>>, Pos |-> 0, Error |-> FALSE, Mode |-> Serialize,
     Cap |-> 64, Panic |-> FALSE]

\* the Writing flag of primitives.go is the Serialize mode of composite.go
Writing(buf) == buf.Mode = Serialize

ReadingDone(b) == b.Pos >= Len(b.Data)

Grow(b, data) ==
    [b EXCEPT !.Data = data,
              !.Cap = IF Len(data) > b.Cap THEN Len(data) ELSE b.Cap]

\* EnsureSpace(n): n more bytes at the tail (zero bytes of a fresh backing
\* array: nothing is ever written beyond len)
EnsureSpace(b, n) ==
    LET desiredSize == Len(b.Data) + n
    IN  IF Len(b.Data) < desiredSize
        THEN Grow(b, b.Data \o [i \in 1..n |-> 0])
        ELSE b

WriteBytes(b, newData) == Grow(b, b.Data \o newData)

\* copy(buf.Data[pos:pos+size], s) with pos+size = len(buf.Data)
CopyAt(b, pos, s) ==
    [b EXCEPT !.Data = [i \in 1..Len(b.Data) |->
                          IF i > pos /\ i <= pos + Len(s) THEN s[i - pos] ELSE b.Data[i]]]

\* a ReadByte that clears the byte it has read: a fault C25_BorrowedInput
\* rules out
ReadByteClearing(buf) ==
    IF buf.Pos >= Len(buf.Data)
    THEN [b |-> 0, err |-> "EOF", buf |-> buf]
    ELSE [b |-> buf.Data[buf.Pos + 1], err |-> "nil",
          buf |-> [buf EXCEPT !.Pos = buf.Pos + 1, !.Data[buf.Pos + 1] = 0]]

\* ReadByte (io.ByteReader): [b, err, buf]
ReadByte(buf) ==
    IF buf.Pos >= Len(buf.Data)
    THEN [b |-> 0, err |-> "EOF", buf |-> buf]
    ELSE [b |-> buf.Data[buf.Pos + 1], err |-> "nil",
          buf |-> [buf EXCEPT !.Pos = buf.Pos + 1]]

\* make([]byte, n) panics for a negative n and for a length no heap holds;
\* the inputs of this model ask for a few bytes or for more than 2^62
MakeOK(n) == ~IsNeg(n) /\ IsSmall(n)

\* ReadBytes(n), n a Go int: [res, buf].  Pos+n wraps modulo 2^64; a slice
\* expression Data[lo:hi] panics unless 0 <= lo <= hi <= cap(Data).
ReadBytes(b, n) ==
    LET length == Len(b.Data)
        end == Add(FromNat(b.Pos), n)
    IN  IF b.Panic THEN [res |-> <<>>, buf |-> b]
        ELSE IF SLess(FromNat(length), end)
        THEN \* unhappy case
             IF b.Pos > length \/ ~MakeOK(n)
             THEN [res |-> <<>>, buf |-> [b EXCEPT !.Panic = TRUE]]
             ELSE LET remaining == SubSeq(b.Data, b.Pos + 1, length)
                      result == [i \in 1..ToNat(n) |->
                                   IF i <= Len(remaining) THEN remaining[i] ELSE 0]
                  IN  [res |-> result,
                       buf |-> [b EXCEPT !.Pos = length, !.Error = TRUE]]
        ELSE IF IsNeg(end) \/ SLess(end, FromNat(b.Pos))
        THEN [res |-> <<>>, buf |-> [b EXCEPT !.Panic = TRUE]]
        ELSE [res |-> SubSeq(b.Data, b.Pos + 1, ToNat(end)),
              buf |-> [b EXCEPT !.Pos = ToNat(end)]]

(***************************************************************************)
(* Primitive codecs: codec(v, buf) = [v, buf], v the value behind the      *)
(* pointer after the call                                                  *)
(***************************************************************************)
Ret(v, buf) == [v |-> v, buf |-> buf]

\* the statements after a call, with its result bound to a local variable:
\* the call is evaluated once, before the statements that follow it
With(result, rest(_)) == CHOOSE v \in {rest(r) : r \in {result}} : TRUE

\* BigEndian.UintN(slice): the bounds check b[n-1] panics on a short slice
BigEndianUint(slice, n, old, buf) ==
    IF buf.Panic THEN Ret(old, buf)
    ELSE IF Len(slice) < n THEN Ret(old, [buf EXCEPT !.Panic = TRUE])
    ELSE Ret(BigEndianWord(slice, n), buf)

FUInt64(n, buf) ==
    IF buf.Panic THEN Ret(n, buf)
    ELSE IF Writing(buf)
    THEN Ret(n, WriteBytes(buf, BigEndianBytes(n, 8)))
    ELSE With(ReadBytes(buf, FromNat(8)), LAMBDA r :
             BigEndianUint(r.res, 8, n, r.buf))

FUInt32(n, buf) ==
    IF buf.Panic THEN Ret(n, buf)
    ELSE IF Writing(buf)
    THEN Ret(n, WriteBytes(buf, BigEndianBytes(n, 4)))
    ELSE With(ReadBytes(buf, FromNat(2)), LAMBDA r :
             BigEndianUint(r.res, 4, n, r.buf))

FUInt16(n, buf) ==
    IF buf.Panic THEN Ret(n, buf)
    ELSE IF Writing(buf)
    THEN Ret(n, WriteBytes(buf, BigEndianBytes(n, 2)))
    ELSE With(ReadBytes(buf, FromNat(2)), LAMBDA r :
             BigEndianUint(r.res, 2, n, r.buf))

\* uint64(*n) and int64(u) keep the 64 bits
FInt64(n, buf) == FUInt64(n, buf)

FInt(n, buf) == FUInt64(n, buf)

\* math.Float64bits and Float64frombits are bit casts: a float64 is its word
Float64(n, buf) == FUInt64(n, buf)

Byte(b, buf) ==
    IF buf.Panic THEN Ret(b, buf)
    ELSE IF Writing(buf)
    THEN Ret(b, WriteBytes(buf, <<b>>))
    ELSE With(ReadBytes(buf, FromNat(1)), LAMBDA r :
             IF r.buf.Panic THEN Ret(b, r.buf) ELSE Ret(r.res[1], r.buf))

Bool(b, buf) ==
    With(Byte(IF b THEN 1 ELSE 0, buf), LAMBDA r :
        IF r.buf.Panic THEN Ret(b, r.buf) ELSE Ret(r.v # 0, r.buf))

\* a ReadUvarint without the overflow test on the tenth byte: a fault
\* C17_VarintFailure rules out
RECURSIVE ReadUvarintFromUnchecked(_, _)
ReadUvarintFromUnchecked(buf, i) ==
    LET r == ReadByte(buf)
        s == 7 * i
    IN  CASE i >= MaxVarintLen64 ->
                 [x |-> Zero64, err |-> "overflow", buf |-> buf]
          [] i < MaxVarintLen64 /\ r.err # "nil" ->
                 [x |-> Zero64,
                  err |-> IF i > 0 THEN "ErrUnexpectedEOF" ELSE "EOF",
                  buf |-> r.buf]
          [] i < MaxVarintLen64 /\ r.err = "nil" /\ r.b < 128 ->
                 [x |-> ByteShl(r.b, s), err |-> "nil", buf |-> r.buf]
          [] i < MaxVarintLen64 /\ r.err = "nil" /\ r.b >= 128 ->
                 [ReadUvarintFromUnchecked(r.buf, i + 1)
                     EXCEPT !.x = Or(ByteShl(r.b % 128, s), @)]

\* binary.ReadUvarint(buf), from byte i on: [x, err, buf].
\*   for i := 0; i < MaxVarintLen64; i++ {
\*       b, err := r.ReadByte(); if err != nil { return x, err' }
\*       if b < 0x80 { if i == 9 && b > 1 { return x, overflow }
\*                     return x | uint64(b)<<s, nil }
\*       x |= uint64(b&0x7f) << s; s += 7 }
\*   return x, overflow
\* The shift s is 7*i; the groups of the bytes read are or-ed into x on the
\* way back.
RECURSIVE ReadUvarintFrom(_, _)
ReadUvarintFrom(buf, i) ==
    LET r == ReadByte(buf)
        s == 7 * i
    IN  CASE i >= MaxVarintLen64 ->
                 [x |-> Zero64, err |-> "overflow", buf |-> buf]
          [] i < MaxVarintLen64 /\ r.err # "nil" ->
                 [x |-> Zero64,
                  err |-> IF i > 0 THEN "ErrUnexpectedEOF" ELSE "EOF",
                  buf |-> r.buf]
          [] i = MaxVarintLen64 - 1 /\ r.err = "nil" /\ r.b < 128 /\ r.b > 1 ->
                 [x |-> Zero64, err |-> "overflow", buf |-> r.buf]
          [] i < MaxVarintLen64 /\ r.err = "nil" /\ r.b < 128
                /\ ~(i = MaxVarintLen64 - 1 /\ r.b > 1) ->
                 [x |-> ByteShl(r.b, s), err |-> "nil", buf |-> r.buf]
          [] i < MaxVarintLen64 /\ r.err = "nil" /\ r.b >= 128 ->
                 [ReadUvarintFrom(r.buf, i + 1)
                     EXCEPT !.x = Or(ByteShl(r.b % 128, s), @)]

ReadUvarint(buf) == ReadUvarintFrom(buf, 0)

\* binary.ReadVarint(buf): the zigzag mapping is undone even on an error
ReadVarint(buf) ==
    With(ReadUvarint(buf), LAMBDA r :
        [x |-> UnZigZag(r.x), err |-> r.err, buf |-> r.buf])

\* a VInt64 whose read assigns the outcome of this call to the flag: a fault
\* C12_StickyError rules out
VInt64Assigning(n, buf) ==
    IF buf.Panic THEN Ret(n, buf)
    ELSE IF Writing(buf)
    THEN Ret(n, WriteBytes(buf, VarintBytes(n)))
    ELSE With(ReadVarint(buf), LAMBDA r :
             Ret(r.x, [r.buf EXCEPT !.Error = (r.err # "nil")]))

VInt64(n, buf) ==
    IF buf.Panic THEN Ret(n, buf)
    ELSE IF Writing(buf)
    THEN Ret(n, WriteBytes(buf, VarintBytes(n)))
    ELSE With(ReadVarint(buf), LAMBDA r :
             Ret(r.x, IF r.err # "nil" THEN [r.buf EXCEPT !.Error = TRUE] ELSE r.buf))

VUInt64(n, buf) ==
    IF buf.Panic THEN Ret(n, buf)
    ELSE IF Writing(buf)
    THEN Ret(n, WriteBytes(buf, UvarintBytes(n)))
    ELSE With(ReadUvarint(buf), LAMBDA r :
             Ret(r.x, IF r.err # "nil" THEN [r.buf EXCEPT !.Error = TRUE] ELSE r.buf))

\* int is 64 bits wide: int64(*n) and int(n64) keep the value
\* (Int is the set of integers in TLA+, hence the name GoInt)
GoInt(n, buf) == VInt64(n, buf)

UInt(n, buf) == VUInt64(n, buf)

\* a Version that rejects the version max itself: a fault C10_Version rules
\* out
VersionOffByOne(max, buf) ==
    With(GoInt(max, buf), LAMBDA r :
        IF r.buf.Panic THEN r
        ELSE IF ~SLess(r.v, max)
        THEN Ret(r.v, [r.buf EXCEPT !.Error = TRUE])
        ELSE r)

\* Version(max, buf): the value returned is v
Version(max, buf) ==
    With(GoInt(max, buf), LAMBDA r :
        IF r.buf.Panic THEN r
        ELSE IF SLess(max, r.v)
        THEN Ret(r.v, [r.buf EXCEPT !.Error = TRUE])
        ELSE r)

(***************************************************************************)
(* Composite codecs.  A Go slice is [isNil, elems], a map [isNil, kv], an   *)
(* instant of time [sec, nsec].                                            *)
(***************************************************************************)
NilSlice == [isNil |-> TRUE, elems |-> <<>>]
GoSlice(elems) == [isNil |-> FALSE, elems |-> elems]

String(s, buf) ==
    With(GoInt(FromNat(Len(s)), buf), LAMBDA r :
        LET size == r.v
            pos == Len(r.buf.Data)
        IN  IF r.buf.Panic THEN Ret(s, r.buf)
            ELSE IF r.buf.Mode = Serialize
            THEN Ret(s, CopyAt(EnsureSpace(r.buf, ToNat(size)), pos, s))
            ELSE With(ReadBytes(r.buf, size), LAMBDA rb :
                     IF rb.buf.Panic THEN Ret(s, rb.buf) ELSE Ret(rb.res, rb.buf)))

\* the scan of StringZ: the first index (0-based) from `end` on that holds a
\* zero byte, or len(Data)
RECURSIVE ScanZ(_, _)
ScanZ(data, end) ==
    IF end < Len(data) /\ data[end + 1] # 0 THEN ScanZ(data, end + 1) ELSE end

\* a StringZ that writes no terminator: a fault C1_RoundTrip rules out
StringZUnterminated(s, buf) ==
    IF buf.Panic THEN Ret(s, buf)
    ELSE IF buf.Mode = Serialize
    THEN LET pos == Len(buf.Data)
         IN  Ret(s, CopyAt(EnsureSpace(buf, Len(s)), pos, s))
    ELSE LET start == buf.Pos
             end == ScanZ(buf.Data, start)
             moved == [buf EXCEPT !.Pos = end + 1]
         IN  IF end > buf.Cap
             THEN Ret(s, [moved EXCEPT !.Panic = TRUE])
             ELSE Ret(SubSeq(buf.Data, start + 1, end), moved)

\* a StringZ whose read leaves the cursor on the terminator: a fault
\* C15_StringZ rules out
StringZOnTerminator(s, buf) ==
    IF buf.Panic THEN Ret(s, buf)
    ELSE IF buf.Mode = Serialize
    THEN LET pos == Len(buf.Data)
         IN  Ret(s, WriteBytes(CopyAt(EnsureSpace(buf, Len(s)), pos, s), <<0>>))
    ELSE LET start == buf.Pos
             end == ScanZ(buf.Data, start)
             moved == [buf EXCEPT !.Pos = end]
         IN  IF end > buf.Cap
             THEN Ret(s, [moved EXCEPT !.Panic = TRUE])
             ELSE Ret(SubSeq(buf.Data, start + 1, end), moved)

StringZ(s, buf) ==
    IF buf.Panic THEN Ret(s, buf)
    ELSE IF buf.Mode = Serialize
    THEN LET pos == Len(buf.Data)
         IN  Ret(s, WriteBytes(CopyAt(EnsureSpace(buf, Len(s)), pos, s), <<0>>))
    ELSE LET start == buf.Pos
             end == ScanZ(buf.Data, start)
             moved == [buf EXCEPT !.Pos = end + 1]
         IN  \* Data[start:end] needs start <= end <= cap(Data)
             IF end > buf.Cap
             THEN Ret(s, [moved EXCEPT !.Panic = TRUE])
             ELSE Ret(SubSeq(buf.Data, start + 1, end), moved)

ByteSlice(s, buf) ==
    With(GoInt(FromNat(Len(s.elems)), buf), LAMBDA r :
        LET size == r.v
            pos == Len(r.buf.Data)
        IN  IF r.buf.Panic THEN Ret(s, r.buf)
            ELSE IF r.buf.Mode = Serialize
            THEN Ret(s, CopyAt(EnsureSpace(r.buf, ToNat(size)), pos, s.elems))
            ELSE IF ~MakeOK(size)
            THEN Ret(s, [r.buf EXCEPT !.Panic = TRUE])
            ELSE With(ReadBytes(r.buf, size), LAMBDA rb :
                     IF rb.buf.Panic THEN Ret(s, rb.buf)
                     ELSE Ret(GoSlice(rb.res), rb.buf)))

\* The element type and the PackFn of the slices of TestPackingThings
ZeroOther == [I1 |-> Zero64, S1 |-> <<>>]

PackOther(self, buf) ==
    With(GoInt(self.I1, buf), LAMBDA a :
    With(String(self.S1, a.buf), LAMBDA b :
        Ret([I1 |-> a.v, S1 |-> b.v], b.buf)))

\* fn(item, buf) for a PackFn handed to Slice or Map, named by its function
Apply(fn, item, buf) ==
    CASE fn = "Int" -> GoInt(item, buf)
      [] fn = "String" -> String(item, buf)
      [] fn = "PackOther" -> PackOther(item, buf)

\* the loop of Slice: for index := range *list { fn(&(*list)[index], buf) }
RECURSIVE SliceLoop(_, _, _, _)
SliceLoop(fn, elems, index, buf) ==
    IF index > Len(elems) THEN Ret(elems, buf)
    ELSE With(Apply(fn, elems[index], buf), LAMBDA e :
             SliceLoop(fn, [elems EXCEPT ![index] = e.v], index + 1, e.buf))

\* Slice(list, fn, buf); zero is the zero value of the element type
Slice(list, fn, zero, buf) ==
    With(GoInt(FromNat(Len(list.elems)), buf), LAMBDA r :
        LET size == r.v
        IN  IF r.buf.Panic THEN Ret(list, r.buf)
            ELSE IF r.buf.Mode = Deserialize
            THEN IF ~MakeOK(size)
                 THEN Ret(list, [r.buf EXCEPT !.Panic = TRUE])
                 ELSE With(SliceLoop(fn, [i \in 1..ToNat(size) |-> zero], 1, r.buf),
                           LAMBDA l : Ret(GoSlice(l.v), l.buf))
            ELSE With(SliceLoop(fn, list.elems, 1, r.buf),
                      LAMBDA l : Ret([list EXCEPT !.elems = l.v], l.buf)))

NilMap == [isNil |-> TRUE, kv |-> <<>>]

\* the write loop of Map: for key, val := range *m, from the i-th key on
RECURSIVE MapWrite(_, _, _, _, _, _)
MapWrite(keyFn, valFn, m, order, i, buf) ==
    IF i > Len(order) THEN buf
    ELSE MapWrite(keyFn, valFn, m, order, i + 1,
                  Apply(valFn, m.kv[order[i]], Apply(keyFn, order[i], buf).buf).buf)

\* a read loop of Map that keeps the first value read for a key: a fault
\* C22_Map rules out
RECURSIVE MapReadKeepFirst(_, _, _, _, _, _, _)
MapReadKeepFirst(keyFn, valFn, zeroK, zeroV, kv, n, buf) ==
    IF n = 0 THEN Ret(kv, buf)
    ELSE With(Apply(keyFn, zeroK, buf), LAMBDA k :
         With(Apply(valFn, zeroV, k.buf), LAMBDA v :
             IF v.buf.Panic THEN Ret(kv, v.buf)
             ELSE MapReadKeepFirst(keyFn, valFn, zeroK, zeroV,
                                   kv @@ (k.v :> v.v), n - 1, v.buf)))

\* the read loop of Map: for i := 0; i < size; i++, n iterations to go
RECURSIVE MapRead(_, _, _, _, _, _, _)
MapRead(keyFn, valFn, zeroK, zeroV, kv, n, buf) ==
    IF n = 0 THEN Ret(kv, buf)
    ELSE With(Apply(keyFn, zeroK, buf), LAMBDA k :
         With(Apply(valFn, zeroV, k.buf), LAMBDA v :
             IF v.buf.Panic THEN Ret(kv, v.buf)
             ELSE MapRead(keyFn, valFn, zeroK, zeroV,
                          (k.v :> v.v) @@ kv, n - 1, v.buf)))

\* the number of times the body of `for i := 0; i < size; i++` runs, as a
\* 64-bit word: the body neither changes i or size nor leaves the loop
TripCount(size) == IF IsNeg(size) THEN Zero64 ELSE size

\* Map(m, keyFn, valFn, buf); order is the order in which range visits the
\* keys when writing, zeroK and zeroV the zero values of the key and value.
\* generic.InitMap(m) makes the map when it is nil.
Map(m, order, keyFn, valFn, zeroK, zeroV, buf) ==
    With(GoInt(FromNat(Len(order)), buf), LAMBDA r :
        LET size == r.v
            \* the read loop runs `size` times; an iteration that consumes
            \* no byte is repeated unchanged by every later one, which is
            \* the case at the latest after one iteration per byte left
            steady == Len(r.buf.Data) - r.buf.Pos + 2
            trips == TripCount(size)
            n == IF IsSmall(trips) /\ ToNat(trips) <= steady THEN ToNat(trips)
                 ELSE steady
        IN  IF r.buf.Panic THEN Ret(m, r.buf)
            ELSE IF r.buf.Mode = Serialize
            THEN Ret(m, MapWrite(keyFn, valFn, m, order, 1, r.buf))
            ELSE With(MapRead(keyFn, valFn, zeroK, zeroV, m.kv, n, r.buf),
                      LAMBDA l : Ret([isNil |-> FALSE, kv |-> l.v], l.buf)))

\* A Binary value is supplied by the caller: data is what MarshalBinary
\* returns, marshalErr whether it reports an error; UnmarshalBinary accepts
\* data that starts with the format version 1, as time.Time does.
MarshalBinary(b) == [data |-> b.data, err |-> b.marshalErr]
UnmarshalBinary(b, data) ==
    IF Len(data) > 0 /\ data[1] = 1
    THEN [v |-> [b EXCEPT !.data = data], err |-> FALSE]
    ELSE [v |-> b, err |-> TRUE]

\* a BinaryMarshal that writes the bytes of a failed MarshalBinary: a fault
\* C23_BinaryMarshal rules out
BinaryMarshalNoReturn(b, buf) ==
    IF buf.Panic THEN Ret(b, buf)
    ELSE IF buf.Mode = Serialize
    THEN LET m == MarshalBinary(b)
         IN  IF m.err
             THEN Ret(b, ByteSlice(GoSlice(m.data), [buf EXCEPT !.Error = TRUE]).buf)
             ELSE Ret(b, ByteSlice(GoSlice(m.data), buf).buf)
    ELSE With(ByteSlice(NilSlice, buf), LAMBDA r :
             LET u == UnmarshalBinary(b, r.v.elems)
             IN  IF r.buf.Panic THEN Ret(b, r.buf)
                 ELSE IF u.err THEN Ret(u.v, [r.buf EXCEPT !.Error = TRUE])
                 ELSE Ret(u.v, r.buf))

BinaryMarshal(b, buf) ==
    IF buf.Panic THEN Ret(b, buf)
    ELSE IF buf.Mode = Serialize
    THEN LET m == MarshalBinary(b)
         IN  IF m.err THEN Ret(b, [buf EXCEPT !.Error = TRUE])
             ELSE Ret(b, ByteSlice(GoSlice(m.data), buf).buf)
    ELSE With(ByteSlice(NilSlice, buf), LAMBDA r :
             LET u == UnmarshalBinary(b, r.v.elems)
             IN  IF r.buf.Panic THEN Ret(b, r.buf)
                 ELSE IF u.err THEN Ret(u.v, [r.buf EXCEPT !.Error = TRUE])
                 ELSE Ret(u.v, r.buf))

\* UnixTime: t.Unix() when writing, time.Unix(seconds, 0) when reading
UnixTime(t, buf) ==
    With(VInt64(IF buf.Mode = Serialize THEN t.sec ELSE Zero64, buf), LAMBDA r :
        IF r.buf.Panic THEN Ret(t, r.buf)
        ELSE IF r.buf.Mode = Deserialize
        THEN Ret([sec |-> r.v, nsec |-> 0], r.buf)
        ELSE Ret(t, r.buf))

\* UnixTimeKey: as UnixTime, over FInt64
UnixTimeKey(t, buf) ==
    With(FInt64(IF buf.Mode = Serialize THEN t.sec ELSE Zero64, buf), LAMBDA r :
        IF r.buf.Panic THEN Ret(t, r.buf)
        ELSE IF r.buf.Mode = Deserialize
        THEN Ret([sec |-> r.v, nsec |-> 0], r.buf)
        ELSE Ret(t, r.buf))

\* t.UnixMilli(): t.unixSec()*1e3 + int64(t.nsec())/1e6
UnixMilli(t) == Add(Mul(t.sec, FromNat(1000)), FromNat(t.nsec \div 1000000))

\* time.UnixMilli(msec) is Unix(msec/1e3, (msec%1e3)*1e6), and Unix carries a
\* negative nsec into sec: sec is msec/1e3 rounded down
TimeUnixMilli(msec) ==
    LET sec == IF IsNeg(msec) THEN Not(UDiv(Not(msec), 1000))
               ELSE UDiv(msec, 1000)
    IN  [sec |-> sec,
         nsec |-> ToNat(Sub(msec, Mul(sec, FromNat(1000)))) * 1000000]

UnixTimeMilliKey(t, buf) ==
    With(FInt64(IF buf.Mode = Serialize THEN UnixMilli(t) ELSE Zero64, buf),
         LAMBDA r :
        IF r.buf.Panic THEN Ret(t, r.buf)
        ELSE IF r.buf.Mode = Deserialize
        THEN Ret(TimeUnixMilli(r.v), r.buf)
        ELSE Ret(t, r.buf))

\* The version functions handed to Versioned, after v1PackXYZ and v2PackXYZ:
\* the schema of version i has the i fields F[1..i], packed in order with
\* Int.  Invoked lists the functions that were called on the item.
\* ZeroItem is the zero value of the item.
MaxVersions == 2

ZeroItem == [F |-> [j \in 1..MaxVersions |-> Zero64], Invoked |-> <<>>]

RECURSIVE PackFields(_, _, _, _)
PackFields(F, j, i, buf) ==
    IF j > i THEN Ret(F, buf)
    ELSE With(GoInt(F[j], buf), LAMBDA r :
             PackFields([F EXCEPT ![j] = r.v], j + 1, i, r.buf))

PackVersion(i, item, buf) ==
    With(PackFields(item.F, 1, i, buf), LAMBDA r :
        Ret([F |-> r.v, Invoked |-> Append(item.Invoked, i)], r.buf))

\* a Versioned that always calls the last function: a fault C9_EncodeLatest
\* rules out
VersionedLatest(item, buf, nfns) ==
    With(GoInt(FromNat(nfns), buf), LAMBDA r :
        LET version == r.v
        IN  IF r.buf.Panic THEN Ret(item, r.buf)
            ELSE IF ~SLess(FromNat(nfns), version)
            THEN IF SLess(version, FromNat(1))
                 THEN Ret(item, [r.buf EXCEPT !.Panic = TRUE])
                 ELSE PackVersion(nfns, item, r.buf)
            ELSE Ret(item, [r.buf EXCEPT !.Error = TRUE]))

\* Versioned(item, buf, fns...): nfns is len(fns), and fns[i-1](item, buf)
\* is PackVersion(i, item, buf); fns[version-1] panics when version-1 is
\* below 0
Versioned(item, buf, nfns) ==
    With(GoInt(FromNat(nfns), buf), LAMBDA r :
        LET version == r.v
        IN  IF r.buf.Panic THEN Ret(item, r.buf)
            ELSE IF ~SLess(FromNat(nfns), version)
            THEN IF SLess(version, FromNat(1))
                 THEN Ret(item, [r.buf EXCEPT !.Panic = TRUE])
                 ELSE PackVersion(ToNat(version), item, r.buf)
            ELSE Ret(item, [r.buf EXCEPT !.Error = TRUE]))

(***************************************************************************)
(* Entry points                                                            *)
(***************************************************************************)
\* a ToBytes that ignores the error flag: a fault C7_EncodeOutcome rules out
ToBytesAlways(buf) == GoSlice(buf.Data)

\* ToBytes, after fn(obj, buf) has run on the writer buf: nil or buf.Data
ToBytes(buf) == IF buf.Error THEN NilSlice ELSE GoSlice(buf.Data)

\* a FromBytesInto that ignores the error flag: a fault C6_DecodeOutcome
\* rules out
FromBytesIntoAlways(buf) == TRUE

\* FromBytesInto, after fn(obj, buf) has run on the reader buf
FromBytesInto(buf) == ~buf.Error

\* FromBytes: a pointer to the object when FromBytesInto reports true
FromBytes(ok, obj) ==
    IF ok THEN [isNil |-> FALSE, obj |-> obj] ELSE [isNil |-> TRUE, obj |-> <<>>]

(***************************************************************************)
(* Traversal functions of the tests and of the README                      *)
(***************************************************************************)
ZeroTime == [sec |-> Zero64, nsec |-> 0]

ZeroSomething ==
    [I1 |-> Zero64, I2 |-> Zero64, S1 |-> <<>>, S2 |-> <<>>, O1 |-> NilSlice,
     B1 |-> FALSE, T1 |-> ZeroTime]

PackSomething(self, buf) ==
    With(GoInt(self.I1, buf), LAMBDA a :
    With(GoInt(self.I2, a.buf), LAMBDA b :
    With(String(self.S1, b.buf), LAMBDA c :
    With(StringZ(self.S2, c.buf), LAMBDA d :
    With(Slice(self.O1, "PackOther", ZeroOther, d.buf), LAMBDA e :
    With(Bool(self.B1, e.buf), LAMBDA f :
    With(UnixTime(self.T1, f.buf), LAMBDA g :
        Ret([I1 |-> a.v, I2 |-> b.v, S1 |-> c.v, S2 |-> d.v, O1 |-> e.v,
             B1 |-> f.v, T1 |-> g.v], g.buf))))))))

\* PackXYZ of the README: the version guard Version(2, buf), then the fields
\* of the version read; version 1 had Energy where version 2 has Price
ZeroXYZ == [Unit |-> Zero64, Price |-> Zero64, Chapter |-> <<>>, President |-> FALSE]

PackXYZ(xyz, buf) ==
    With(Version(FromNat(2), buf), LAMBDA version :
    With(GoInt(xyz.Unit, version.buf), LAMBDA unit :
    With(IF version.v = FromNat(1) THEN GoInt(Zero64, unit.buf)
         ELSE Ret(Zero64, unit.buf), LAMBDA energy :
    With(IF ~SLess(version.v, FromNat(2))
         THEN GoInt(xyz.Price, energy.buf)
         ELSE Ret(IF version.v = FromNat(1) THEN Mul(energy.v, unit.v)
                  ELSE xyz.Price, energy.buf), LAMBDA price :
    With(String(xyz.Chapter, price.buf), LAMBDA chapter :
    With(Bool(xyz.President, chapter.buf), LAMBDA president :
        Ret([Unit |-> unit.v, Price |-> price.v, Chapter |-> chapter.v,
             President |-> president.v], president.buf)))))))

(***************************************************************************)
(* Inputs: the values written, the traversals run and the bytes read       *)
(***************************************************************************)
U64Samples == {Zero64, FromNat(258), MaxUint64}
U32Samples == {Zero64, FromNat(258), <<255, 255, 255, 255, 0, 0, 0, 0>>}
U16Samples == {Zero64, FromNat(258), FromNat(65535)}
I64Samples == {Zero64, FromInt(-1), FromInt(300), MinInt64, MaxInt64}
\* varint boundary values: 0, 1, -1, the extremes, the 7-bit group boundaries
VarintSamples ==
    {Zero64, FromInt(1), FromInt(-1), MinInt64, MaxInt64, FromInt(127),
     FromInt(128), FromInt(16383), FromInt(16384)}
UvarintSamples ==
    {Zero64, FromNat(1), MaxUint64, MaxInt64, FromNat(127), FromNat(128),
     FromNat(16383), FromNat(16384)}
\* the n of a direct call of ReadBytes: a few bytes, or the largest int
CountSamples == {Zero64, FromNat(2), MaxInt64}
ByteSamples == {0, 1, 255}
StrSamples == {<<>>, <<65>>, <<65, 0, 66>>}
BytesSamples == {NilSlice, GoSlice(<<>>), GoSlice(<<1, 2>>)}
OtherSamples ==
    {NilSlice, GoSlice(<<>>),
     GoSlice(<<[I1 |-> FromNat(10), S1 |-> <<>>], [I1 |-> Zero64, S1 |-> <<107>>]>>)}
MapSamples ==
    {NilMap, [isNil |-> FALSE, kv |-> <<>>],
     [isNil |-> FALSE, kv |-> (<<65>> :> FromInt(1)) @@ (<<66>> :> FromInt(-2))]}
MapOrders(m) ==
    {o \in [1..Cardinality(DOMAIN m.kv) -> DOMAIN m.kv] :
        \A i, j \in DOMAIN o : i # j => o[i] # o[j]}
BinarySamples ==
    {[data |-> <<1, 7>>, marshalErr |-> FALSE],
     [data |-> <<1, 7>>, marshalErr |-> TRUE],
     [data |-> <<>>, marshalErr |-> FALSE]}
ZeroBinary == [data |-> <<>>, marshalErr |-> FALSE]
TimeSamples ==
    {[sec |-> FromNat(2342), nsec |-> 0], [sec |-> FromNat(2342), nsec |-> 500],
     [sec |-> FromInt(-1), nsec |-> 0]}
XYZSamples ==
    {[Unit |-> FromNat(3), Price |-> FromNat(12), Chapter |-> <<65>>,
      President |-> TRUE]}
KeyTimeSamples ==
    TimeSamples \cup
    {[sec |-> Zero64, nsec |-> 0], [sec |-> FromNat(2342), nsec |-> 5000000],
     [sec |-> FromInt(-2342), nsec |-> 0]}
ItemSamples ==
    {[F |-> [j \in 1..MaxVersions |-> FromNat(j + 2)], Invoked |-> <<>>]}

\* the record of TestPackingThings and its neighbours
SomethingSamples ==
    [I1 : {FromNat(100)},
     I2 : {FromNat(43222), FromInt(-1)},
     S1 : {<<72, 101, 108, 108, 111>>, <<>>},
     S2 : {<<87, 111, 114, 108, 100>>, <<>>},
     O1 : OtherSamples,
     B1 : BOOLEAN,
     T1 : {[sec |-> FromNat(2342), nsec |-> 0]}]

Codecs ==
    {"FUInt64", "FUInt32", "FUInt16", "FInt64", "FInt", "Float64", "Byte",
     "Bool", "VInt64", "VUInt64", "Int", "UInt", "Version", "String",
     "StringZ", "ByteSlice", "Slice", "Map", "BinaryMarshal", "UnixTime",
     "Versioned", "PackSomething", "PackXYZ", "UnixTimeKey",
     "UnixTimeMilliKey"}

\* the traversal functions run: the one that calls nothing, every codec
\* alone, and some pairs
Traversals ==
    {<<>>} \cup {<<c>> : c \in Codecs} \cup
    {<<"Int", "StringZ">>, <<"StringZ", "StringZ">>, <<"StringZ", "Byte">>,
     <<"String", "Bool">>, <<"BinaryMarshal", "Int">>, <<"Version", "Int">>,
     <<"UnixTimeKey", "UnixTimeKey">>,
     <<"UnixTimeMilliKey", "UnixTimeMilliKey">>}

\* bytes that follow an encoding in a longer buffer
Tails == {<<0>>, <<1, 65>>}

\* the slack of the caller's input slice: cap(data) - len(data)
MaxSlack == 1
Caps(data) == {Len(data) + k : k \in 0..MaxSlack}

\* hostile input: every sequence of up to MaxData of these bytes (as a varint
\* 0, -1, 1 and 2), and some longer ones: cut and overlong varints, the
\* varints of the largest and smallest int, a fixed-width word, an XYZ of
\* version 1 and one of version 3, a map of two pairs with the same key.
\* Read from
\* any offset they hold lengths of a few bytes, negative lengths or lengths
\* above 2^62, never one that asks for megabytes.
MaxData == 2
HostileBytes == {0, 1, 2, 4}
Crafted ==
    {<<128>>, <<255>>, <<128, 128>>,
     <<254, 255, 255, 255, 255, 255, 255, 255, 255, 1>>,
     <<255, 255, 255, 255, 255, 255, 255, 255, 255, 1>>,
     <<255, 255, 255, 255, 255, 255, 255, 255, 255, 2>>,
     <<255, 255, 255, 255, 255, 255, 255, 255, 255, 255, 1>>,
     <<0, 0, 0, 0, 0, 0, 1, 2, 0>>,
     <<2, 6, 4, 0, 1>>, <<6, 2, 4, 0, 1>>,
     <<4, 2, 65, 2, 2, 65, 4>>}
Inputs == (UNION {[1..k -> HostileBytes] : k \in 0..MaxData}) \cup Crafted

(***************************************************************************)
(* The state machine: ToBytes runs a traversal on a writer, FromBytes runs *)
(* the same traversal on a reader over the bytes (whole, cut short or      *)
(* followed by more), or any codecs on a reader over hostile input.        *)
(***************************************************************************)
VARIABLES
    buf,    \* the Buffer of the running operation
    pc,     \* "pack", "packed" (ToBytes returned), "repacked" (and returned
            \* a second time), "unpack", "unpacked"
    plan,   \* the traversal function: the codecs it calls, in order
    idx,    \* the number of calls of the plan made so far
    wlog,   \* the calls made on the writer, in order
    rlog,   \* the calls made on the reader (on hostile input: the last one)
    enc,    \* what ToBytes returned
    again,  \* what a second call of ToBytes on the same value returned
    src,    \* the reader's input: "exact", "prefix", "extended", "hostile"
    ret,    \* what FromBytesInto (ok) and FromBytes (ptr) returned
    input,  \* the caller's bytes as they were when FromBytes was called
    peer    \* a second call of FromBytes over the same bytes of the
            \* caller, with the same traversal and a Buffer of its own:
            \* its Buffer, the number of calls made, and the calls

vars == <<buf, pc, plan, idx, wlog, rlog, enc, again, src, ret, input, peer>>

NoRet == [ok |-> FALSE, ptr |-> FromBytes(FALSE, <<>>)]

\* the second call of FromBytes, before it has called a codec
Peer(data, cap) == [buf |-> NewReader(data, cap), idx |-> 0, log |-> <<>>]

InitPack ==
    /\ buf = NewWriter
    /\ pc = "pack"
    /\ plan \in Traversals
    /\ src = "none"
    /\ input = <<>>
    /\ peer = Peer(<<>>, 0)

InitHostile ==
    /\ \E data \in Inputs : \E cap \in Caps(data) :
          /\ buf = NewReader(data, cap)
          /\ input = data
          /\ peer = Peer(data, cap)
    /\ pc = "unpack"
    /\ plan = <<>>
    /\ src = "hostile"

Init ==
    /\ InitPack \/ InitHostile
    /\ idx = 0
    /\ wlog = <<>>
    /\ rlog = <<>>
    /\ enc = NilSlice
    /\ again = NilSlice
    /\ ret = NoRet

\* the traversal is about to call the codec `name`; on hostile input the
\* traversal is any sequence of codecs
Calls(name) ==
    /\ pc \in {"pack", "unpack"}
    /\ ~buf.Panic
    /\ ~peer.buf.Panic
    /\ IF src = "hostile" THEN TRUE ELSE idx < Len(plan) /\ plan[idx + 1] = name

\* the value behind the pointer when the codec is called: any sample when
\* writing, the zero value of FromBytes' fresh object when reading
Arg(samples, zero) == IF pc = "pack" THEN samples ELSE {zero}

\* The Data of the two readers are slices of the caller's one array: what a
\* call leaves in the bytes of its own Data (written) is what the other
\* reader finds at the same places of its view
Shared(view, written) ==
    [i \in 1..Len(view) |-> IF i <= Len(written) THEN written[i] ELSE view[i]]

\* the call codec(in, buf) returned res.  The log keeps the value behind
\* the pointer before (in) and after (v) the call, the cursor and the error
\* flag before it, and the bytes it appended; buf holds the state after it.
Call(name, arg, in, res) ==
    LET rec == [codec |-> name, arg |-> arg, in |-> in, v |-> res.v,
                pos0 |-> buf.Pos, err0 |-> buf.Error,
                bytes |-> SubSeq(res.buf.Data, Len(buf.Data) + 1, Len(res.buf.Data))]
    IN  /\ buf' = res.buf
        /\ peer' = IF pc = "pack" THEN peer
                   ELSE [peer EXCEPT !.buf.Data = Shared(@, res.buf.Data)]
        /\ idx' = IF src = "hostile" THEN idx ELSE idx + 1
        /\ wlog' = IF pc = "pack" THEN Append(wlog, rec) ELSE wlog
        /\ rlog' = IF pc = "pack" THEN rlog
                   ELSE IF src = "hostile" THEN <<rec>> ELSE Append(rlog, rec)
        /\ UNCHANGED <<pc, plan, enc, again, src, ret, input>>

DoFUInt64 ==
    /\ Calls("FUInt64")
    /\ \E n \in Arg(U64Samples, Zero64) : Call("FUInt64", 0, n, FUInt64(n, buf))

DoFUInt32 ==
    /\ Calls("FUInt32")
    /\ \E n \in Arg(U32Samples, Zero64) : Call("FUInt32", 0, n, FUInt32(n, buf))

DoFUInt16 ==
    /\ Calls("FUInt16")
    /\ \E n \in Arg(U16Samples, Zero64) : Call("FUInt16", 0, n, FUInt16(n, buf))

DoFInt64 ==
    /\ Calls("FInt64")
    /\ \E n \in Arg(I64Samples, Zero64) : Call("FInt64", 0, n, FInt64(n, buf))

DoFInt ==
    /\ Calls("FInt")
    /\ \E n \in Arg(I64Samples, Zero64) : Call("FInt", 0, n, FInt(n, buf))

DoFloat64 ==
    /\ Calls("Float64")
    /\ \E n \in Arg(U64Samples, Zero64) : Call("Float64", 0, n, Float64(n, buf))

DoByte ==
    /\ Calls("Byte")
    /\ \E b \in Arg(ByteSamples, 0) : Call("Byte", 0, b, Byte(b, buf))

DoBool ==
    /\ Calls("Bool")
    /\ \E b \in Arg(BOOLEAN, FALSE) : Call("Bool", 0, b, Bool(b, buf))

DoVInt64 ==
    /\ Calls("VInt64")
    /\ \E n \in Arg(VarintSamples, Zero64) : Call("VInt64", 0, n, VInt64(n, buf))

DoVUInt64 ==
    /\ Calls("VUInt64")
    /\ \E n \in Arg(UvarintSamples, Zero64) :
          Call("VUInt64", 0, n, VUInt64(n, buf))

DoInt ==
    /\ Calls("Int")
    /\ \E n \in Arg(I64Samples, Zero64) : Call("Int", 0, n, GoInt(n, buf))

DoUInt ==
    /\ Calls("UInt")
    /\ \E n \in Arg(U64Samples, Zero64) : Call("UInt", 0, n, UInt(n, buf))

DoVersion ==
    /\ Calls("Version")
    /\ \E max \in 1..MaxVersions :
          Call("Version", max, FromNat(max), Version(FromNat(max), buf))

DoString ==
    /\ Calls("String")
    /\ \E s \in Arg(StrSamples, <<>>) : Call("String", 0, s, String(s, buf))

DoStringZ ==
    /\ Calls("StringZ")
    /\ \E s \in Arg(StrSamples, <<>>) : Call("StringZ", 0, s, StringZ(s, buf))

DoByteSlice ==
    /\ Calls("ByteSlice")
    /\ \E s \in Arg(BytesSamples, NilSlice) :
          Call("ByteSlice", 0, s, ByteSlice(s, buf))

DoSlice ==
    /\ Calls("Slice")
    /\ \E l \in Arg(OtherSamples, NilSlice) :
          Call("Slice", 0, l, Slice(l, "PackOther", ZeroOther, buf))

DoMap ==
    /\ Calls("Map")
    /\ \E m \in Arg(MapSamples, NilMap) : \E order \in MapOrders(m) :
          Call("Map", order, m, Map(m, order, "String", "Int", <<>>, Zero64, buf))

DoBinaryMarshal ==
    /\ Calls("BinaryMarshal")
    /\ \E b \in Arg(BinarySamples, ZeroBinary) :
          Call("BinaryMarshal", 0, b, BinaryMarshal(b, buf))

DoUnixTime ==
    /\ Calls("UnixTime")
    /\ \E t \in Arg(TimeSamples, ZeroTime) : Call("UnixTime", 0, t, UnixTime(t, buf))

DoVersioned ==
    /\ Calls("Versioned")
    /\ \E nfns \in 1..MaxVersions : \E item \in Arg(ItemSamples, ZeroItem) :
          Call("Versioned", nfns, item, Versioned(item, buf, nfns))

DoPackSomething ==
    /\ Calls("PackSomething")
    /\ \E obj \in Arg(SomethingSamples, ZeroSomething) :
          Call("PackSomething", 0, obj, PackSomething(obj, buf))

DoUnixTimeKey ==
    /\ Calls("UnixTimeKey")
    /\ \E t \in Arg(KeyTimeSamples, ZeroTime) :
          Call("UnixTimeKey", 0, t, UnixTimeKey(t, buf))

DoUnixTimeMilliKey ==
    /\ Calls("UnixTimeMilliKey")
    /\ \E t \in Arg(KeyTimeSamples, ZeroTime) :
          Call("UnixTimeMilliKey", 0, t, UnixTimeMilliKey(t, buf))

\* a traversal function that calls buf.ReadBytes(n) itself, on hostile input
DoReadBytes ==
    /\ Calls("ReadBytes")
    /\ src = "hostile"
    /\ \E n \in CountSamples :
          LET r == ReadBytes(buf, n)
          IN  Call("ReadBytes", 0, n, Ret(r.res, r.buf))

DoPackXYZ ==
    /\ Calls("PackXYZ")
    /\ \E xyz \in Arg(XYZSamples, ZeroXYZ) :
          Call("PackXYZ", 2, xyz, PackXYZ(xyz, buf))

\* ToBytes returns once the traversal function has returned
ToBytesReturn ==
    /\ pc = "pack"
    /\ ~buf.Panic
    /\ idx = Len(plan)
    /\ enc' = ToBytes(buf)
    /\ pc' = "packed"
    /\ UNCHANGED <<buf, plan, idx, wlog, rlog, again, src, ret, input, peer>>

\* the call codec(in, buf) of a traversal, the codec given by name and arg
\* as in the log
Codec(name, arg, in, b) ==
    CASE name = "FUInt64" -> FUInt64(in, b)
      [] name = "FUInt32" -> FUInt32(in, b)
      [] name = "FUInt16" -> FUInt16(in, b)
      [] name = "FInt64" -> FInt64(in, b)
      [] name = "FInt" -> FInt(in, b)
      [] name = "Float64" -> Float64(in, b)
      [] name = "Byte" -> Byte(in, b)
      [] name = "Bool" -> Bool(in, b)
      [] name = "VInt64" -> VInt64(in, b)
      [] name = "VUInt64" -> VUInt64(in, b)
      [] name = "Int" -> GoInt(in, b)
      [] name = "UInt" -> UInt(in, b)
      [] name = "Version" -> Version(FromNat(arg), b)
      [] name = "String" -> String(in, b)
      [] name = "StringZ" -> StringZ(in, b)
      [] name = "ByteSlice" -> ByteSlice(in, b)
      [] name = "Slice" -> Slice(in, "PackOther", ZeroOther, b)
      [] name = "Map" -> Map(in, arg, "String", "Int", <<>>, Zero64, b)
      [] name = "BinaryMarshal" -> BinaryMarshal(in, b)
      [] name = "UnixTime" -> UnixTime(in, b)
      [] name = "Versioned" -> Versioned(in, b, arg)
      [] name = "PackSomething" -> PackSomething(in, b)
      [] name = "PackXYZ" -> PackXYZ(in, b)
      [] name = "UnixTimeKey" -> UnixTimeKey(in, b)
      [] name = "UnixTimeMilliKey" -> UnixTimeMilliKey(in, b)

Reverse(order) == [i \in 1..Len(order) |-> order[Len(order) - i + 1]]

\* fn(obj, buf) run once more on the value of the logged calls, from call i
\* on; range may visit the keys of a map the other way round
RECURSIVE Replay(_, _, _, _)
Replay(log, i, flip, b) ==
    IF i > Len(log) THEN b
    ELSE Replay(log, i + 1, flip,
                Codec(log[i].codec,
                      IF log[i].codec = "Map" /\ flip
                      THEN Reverse(log[i].arg) ELSE log[i].arg,
                      log[i].in, b).buf)

\* a writer that reuses the buffer of the previous call: a fault
\* C18_Determinism rules out
WriterReused(prev) == prev

\* buf := NewWriter() of a call of ToBytes that follows a call that left the
\* buffer prev
WriterAfter(prev) == NewWriter

\* ToBytes is called a second time with the same value and traversal
ToBytesAgain ==
    /\ pc = "packed"
    /\ \E flip \in BOOLEAN :
          again' = ToBytes(Replay(wlog, 1, flip, WriterAfter(buf)))
    /\ pc' = "repacked"
    /\ UNCHANGED <<buf, plan, idx, wlog, rlog, enc, src, ret, input, peer>>

\* FromBytes(data, fn) is entered, twice: NewReader(data) each time
Enter(kind, data, cap) ==
    /\ buf' = NewReader(data, cap)
    /\ pc' = "unpack"
    /\ idx' = 0
    /\ src' = kind
    /\ input' = data
    /\ peer' = Peer(data, cap)
    /\ UNCHANGED <<plan, wlog, rlog, enc, again, ret>>

DecodeExact ==
    /\ pc = "packed"
    /\ ~enc.isNil
    /\ \E cap \in Caps(enc.elems) : Enter("exact", enc.elems, cap)

DecodePrefix ==
    /\ pc = "packed"
    /\ ~enc.isNil
    /\ \E k \in 0..(Len(enc.elems) - 1) :
          LET data == SubSeq(enc.elems, 1, k)
          IN  \E cap \in Caps(data) : Enter("prefix", data, cap)

DecodeExtended ==
    /\ pc = "packed"
    /\ ~enc.isNil
    /\ \E tail \in Tails :
          LET data == enc.elems \o tail
          IN  \E cap \in Caps(data) : Enter("extended", data, cap)

\* FromBytesInto and FromBytes return once the traversal function has
FromBytesReturn ==
    /\ pc = "unpack"
    /\ ~buf.Panic
    /\ ~peer.buf.Panic
    /\ IF src = "hostile" THEN TRUE ELSE idx = Len(plan)
    /\ ret' = [ok |-> FromBytesInto(buf), ptr |-> FromBytes(FromBytesInto(buf), rlog)]
    /\ pc' = "unpacked"
    /\ UNCHANGED <<buf, plan, idx, wlog, rlog, enc, again, src, input, peer>>

\* what a codec is called with when reading: the arguments next to the
\* pointer and the buffer, and the zero value behind the pointer
ReadArgs(name) ==
    CASE name \in {"Version", "Versioned"} -> 1..MaxVersions
      [] name = "Map" -> {<<>>}
      [] name = "PackXYZ" -> {2}
      [] OTHER -> {0}

ZeroOf(name, arg) ==
    CASE name \in {"FUInt64", "FUInt32", "FUInt16", "FInt64", "FInt", "Float64",
                   "VInt64", "VUInt64", "Int", "UInt"} -> Zero64
      [] name = "Byte" -> 0
      [] name = "Bool" -> FALSE
      [] name = "Version" -> FromNat(arg)
      [] name \in {"String", "StringZ"} -> <<>>
      [] name \in {"ByteSlice", "Slice"} -> NilSlice
      [] name = "Map" -> NilMap
      [] name = "BinaryMarshal" -> ZeroBinary
      [] name \in {"UnixTime", "UnixTimeKey", "UnixTimeMilliKey"} -> ZeroTime
      [] name = "Versioned" -> ZeroItem
      [] name = "PackSomething" -> ZeroSomething
      [] name = "PackXYZ" -> ZeroXYZ

\* the second call of FromBytes, over an encoding or an encoding followed by
\* more bytes, runs the next codec of the traversal on its own Buffer, at
\* any moment of the first call and after it
PeerCall ==
    /\ pc \in {"unpack", "unpacked"}
    /\ src \in {"exact", "extended"}
    /\ ~buf.Panic
    /\ ~peer.buf.Panic
    /\ peer.idx < Len(plan)
    /\ \E arg \in ReadArgs(plan[peer.idx + 1]) :
          LET name == plan[peer.idx + 1]
              in == ZeroOf(name, arg)
              res == Codec(name, arg, in, peer.buf)
          IN  /\ peer' = [buf |-> res.buf, idx |-> peer.idx + 1,
                          log |-> Append(peer.log,
                                         [codec |-> name, arg |-> arg,
                                          in |-> in, v |-> res.v])]
              /\ buf' = [buf EXCEPT !.Data = Shared(@, res.buf.Data)]
    /\ UNCHANGED <<pc, plan, idx, wlog, rlog, enc, again, src, ret, input>>

Next ==
    \/ DoFUInt64 \/ DoFUInt32 \/ DoFUInt16 \/ DoFInt64 \/ DoFInt \/ DoFloat64
    \/ DoByte \/ DoBool \/ DoVInt64 \/ DoVUInt64 \/ DoInt \/ DoUInt
    \/ DoVersion \/ DoString \/ DoStringZ \/ DoByteSlice \/ DoSlice \/ DoMap
    \/ DoBinaryMarshal \/ DoUnixTime \/ DoVersioned \/ DoPackSomething
    \/ DoPackXYZ \/ DoUnixTimeKey \/ DoUnixTimeMilliKey \/ DoReadBytes
    \/ ToBytesReturn \/ ToBytesAgain \/ DecodeExact \/ DecodePrefix \/ DecodeExtended
    \/ FromBytesReturn \/ PeerCall

Spec == Init /\ [][Next]_vars

(***************************************************************************)
(* Properties                                                              *)
(***************************************************************************)
\* the last call made on the reader; buf holds the state it left
LastRead == rlog[Len(rlog)]

\* the reader has just returned from a call of the codec `name`
Read(name) == pc = "unpack" /\ rlog # <<>> /\ LastRead.codec = name

\* the last call made on the writer; buf holds the state it left
LastWrite == wlog[Len(wlog)]

\* the writer has just returned from a call of the codec `name`
Written(name) == pc = "pack" /\ wlog # <<>> /\ LastWrite.codec = name

\* the reader of FromBytes has run the whole traversal `p` on bytes of `kind`
Decoded(p, kind) == pc = "unpack" /\ plan = p /\ src = kind /\ idx = Len(p)

\* FromBytes has returned from the traversal `p` on bytes of `kind`
Returned(p, kind) == pc = "unpacked" /\ plan = p /\ src = kind

\* the varint stored where the last call of the reader began
StoredVarint == ReadVarint([buf EXCEPT !.Pos = LastRead.pos0])

\* the record of TestPackingThings
TestRecord ==
    [I1 |-> FromNat(100), I2 |-> FromNat(43222),
     S1 |-> <<72, 101, 108, 108, 111>>, S2 |-> <<87, 111, 114, 108, 100>>,
     O1 |-> GoSlice(<<[I1 |-> FromNat(10), S1 |-> <<>>],
                      [I1 |-> Zero64, S1 |-> <<107>>]>>),
     B1 |-> TRUE, T1 |-> [sec |-> FromNat(2342), nsec |-> 0]]

\* a record with its nil slice replaced by the empty slice
NilAsEmpty(obj) == [obj EXCEPT !.O1 = IF @.isNil THEN GoSlice(<<>>) ELSE @]

\* C1 (as amended): for every record of Int, String, StringZ, Slice, Bool and
\* UnixTime fields, ToBytes is non-nil, decoding its result neither panics
\* nor sets the error flag, and FromBytes returns a non-nil object equal to
\* the record field by field, except that a nil slice comes back as an empty
\* non-nil slice.
C1_RoundTrip ==
    /\ (pc = "packed" /\ plan = <<"PackSomething">>) => ~enc.isNil
    /\ Decoded(<<"PackSomething">>, "exact") => ~buf.Panic /\ ~buf.Error
    /\ Returned(<<"PackSomething">>, "exact") =>
          /\ ret.ok
          /\ ~ret.ptr.isNil
          /\ ret.ptr.obj[1].v = NilAsEmpty(wlog[1].in)

\* C1 witness: the record of TestPackingThings came back from FromBytes
C1_Witness ==
    /\ Returned(<<"PackSomething">>, "exact")
    /\ wlog[1].in = TestRecord
    /\ ~ret.ptr.isNil
    /\ ret.ptr.obj[1].v = TestRecord

\* C1 as stated: FromBytes(ToBytes(v, f), f) is equal to v field by field,
\* for every record (violated by a record whose slice is nil)
C1_Original ==
    Returned(<<"PackSomething">>, "exact") =>
        ~ret.ptr.isNil /\ ret.ptr.obj[1].v = wlog[1].in

\* C2: FromBytes on a strictly shorter prefix of a valid encoding reports
\* failure: FromBytesInto returns false and FromBytes nil (violated by a
\* prefix that cuts the terminator of a StringZ)
C2_TruncationDetected ==
    (pc = "unpacked" /\ src = "prefix") => ~ret.ok /\ ret.ptr.isNil

\* C3: decoding any input with any traversal of the codecs returns normally:
\* no state of a reader is a panic (violated by a negative decoded length)
C3_NoPanic == pc = "unpack" => ~buf.Panic

\* the codecs C4 is about
SymmetricCodecs ==
    {"FUInt64", "FUInt32", "FUInt16", "FInt64", "FInt", "Float64", "Byte",
     "Bool", "VInt64", "VUInt64", "Int", "UInt", "String", "StringZ",
     "ByteSlice", "Slice", "Map"}

\* C4: when a codec wrote k bytes for v, reading from a buffer that starts
\* with those bytes, followed by any others, moves the cursor by exactly k
\* and sets no error (violated by FUInt32, and by StringZ for a string that
\* holds a zero byte)
C4_ByteCount ==
    (/\ pc = "unpack"
     /\ src \in {"exact", "extended"}
     /\ idx = 1
     /\ plan[1] \in SymmetricCodecs) =>
        /\ ~buf.Panic
        /\ ~buf.Error
        /\ buf.Pos = Len(wlog[1].bytes)

\* the fixed-width codecs and their widths
FixedWidth ==
    [FUInt64 |-> 8, FInt64 |-> 8, FInt |-> 8, Float64 |-> 8, FUInt32 |-> 4,
     FUInt16 |-> 2]

\* C5: a fixed-width codec appends exactly its width in bytes, most
\* significant first, and decoding those bytes yields the value with the
\* error flag unset (violated by FUInt32, whose decoding panics)
C5_FixedWidth ==
    /\ (pc = "pack" /\ wlog # <<>> /\ LastWrite.codec \in DOMAIN FixedWidth) =>
          LET n == FixedWidth[LastWrite.codec]
          IN  /\ Len(LastWrite.bytes) = n
              /\ \A i \in 1..n : LastWrite.bytes[i] = LastWrite.in[n - i + 1]
    /\ (/\ pc = "unpack"
        /\ src = "exact"
        /\ idx = 1
        /\ plan[1] \in DOMAIN FixedWidth) =>
          /\ ~buf.Panic
          /\ ~buf.Error
          /\ LastRead.v = wlog[1].in

\* C6: FromBytes returns nil exactly when the error flag of the reader is set
\* at the end of the traversal and the populated object otherwise;
\* FromBytesInto returns false in the same cases and true otherwise.
C6_DecodeOutcome ==
    pc = "unpacked" =>
        /\ ret.ptr.isNil <=> buf.Error
        /\ ret.ok <=> ~buf.Error
        /\ ret.ok <=> ~ret.ptr.isNil
        /\ ~ret.ptr.isNil => ret.ptr.obj = rlog

\* C6 witness: a traversal that decoded part of a cut encoding before the
\* flag was set, and FromBytes returned nil
C6_Witness ==
    /\ pc = "unpacked"
    /\ src = "prefix"
    /\ buf.Error
    /\ buf.Pos > 0
    /\ ret.ptr.isNil
    /\ ~ret.ok

\* the bytes the calls of the writer appended, in call order
RECURSIVE Appended(_)
Appended(log) ==
    IF log = <<>> THEN <<>>
    ELSE Appended(SubSeq(log, 1, Len(log) - 1)) \o log[Len(log)].bytes

\* C7: ToBytes returns nil exactly when the error flag of the writer is set
\* at the end of the traversal, whatever was appended after the failure;
\* otherwise it returns the bytes the traversal appended, in call order, and
\* the result is non-nil even when nothing was written.
C7_EncodeOutcome ==
    pc = "packed" =>
        /\ enc.isNil <=> buf.Error
        /\ ~enc.isNil => enc.elems = Appended(wlog)
        /\ (wlog = <<>>) => ~enc.isNil /\ enc.elems = <<>>

\* C7 witness: a codec appended bytes after the one that set the flag, and
\* ToBytes returned nil
C7_Witness ==
    /\ pc = "packed"
    /\ Len(wlog) = 2
    /\ wlog[2].err0
    /\ wlog[2].bytes # <<>>
    /\ enc.isNil

\* C8: on decoding, Versioned with N functions invokes exactly function V
\* when the stored tag V is in 1..N; for every other V it sets the error flag,
\* invokes no function and returns normally (violated by V = 0 and by a
\* negative V: the call panics)
C8_DecodeDispatch ==
    Read("Versioned") =>
        LET N == LastRead.arg
            V == StoredVarint.x
        IN  /\ ~buf.Panic
            /\ IF /\ StoredVarint.err = "nil"
                  /\ ~SLess(V, FromNat(1))
                  /\ ~SLess(FromNat(N), V)
               THEN LastRead.v.Invoked = <<ToNat(V)>>
               ELSE LastRead.v.Invoked = <<>> /\ buf.Error

\* C9: on encoding, Versioned with N functions writes the tag N first and
\* invokes function N only; bytes written with k functions and decoded with
\* N >= k functions dispatch to function k and to no other.
C9_EncodeLatest ==
    /\ Written("Versioned") =>
          /\ LastWrite.v.Invoked = <<LastWrite.arg>>
          /\ LastWrite.bytes # <<>>
          /\ LastWrite.bytes[1] = 2 * LastWrite.arg
          /\ ~buf.Error
    /\ (Decoded(<<"Versioned">>, "exact") /\ LastRead.arg >= wlog[1].arg) =>
          /\ ~buf.Panic
          /\ ~buf.Error
          /\ LastRead.v.Invoked = <<wlog[1].arg>>
          /\ \A j \in 1..wlog[1].arg : LastRead.v.F[j] = wlog[1].in.F[j]

\* C9 witness: bytes written with one function were decoded with two
C9_Witness ==
    /\ Decoded(<<"Versioned">>, "exact")
    /\ wlog[1].arg = 1
    /\ LastRead.arg = 2
    /\ LastRead.v.Invoked = <<1>>
    /\ ~buf.Error

\* C10: writing, Version(max, buf) appends max as a varint, returns max and
\* sets no error; reading a stored value v, it returns v, sets the error
\* flag when v > max and leaves the flag as it was when v <= max.
C10_Version ==
    /\ Written("Version") =>
          /\ LastWrite.bytes = <<2 * LastWrite.arg>>
          /\ LastWrite.v = FromNat(LastWrite.arg)
          /\ buf.Error = LastWrite.err0
    /\ (Read("Version") /\ StoredVarint.err = "nil") =>
          /\ ~buf.Panic
          /\ LastRead.v = StoredVarint.x
          /\ buf.Error = (LastRead.err0 \/ SLess(FromNat(LastRead.arg), LastRead.v))

\* C10 witness: a stored version above max set the flag of a reader that had
\* no error
C10_Witness ==
    /\ Read("Version")
    /\ StoredVarint.err = "nil"
    /\ LastRead.arg = 1
    /\ LastRead.v = FromNat(2)
    /\ ~LastRead.err0
    /\ buf.Error

\* C11: when a traversal guarded by Version, or built with Versioned, reads a
\* version tag above its maximum, the error flag is set and the cursor stays
\* at the end of the tag: no field is read after it (violated by PackXYZ,
\* which goes on to read its fields)
C11_GuardStopsRead ==
    ((Read("PackXYZ") \/ Read("Versioned"))
        /\ StoredVarint.err = "nil"
        /\ SLess(FromNat(LastRead.arg), StoredVarint.x)) =>
        /\ ~buf.Panic
        /\ buf.Error
        /\ buf.Pos = StoredVarint.buf.Pos

\* C12: the error flag is false in a buffer made by NewWriter or NewReader,
\* and a codec call on a buffer whose flag is set leaves it set, whether the
\* buffer reads or writes and whether or not the call by itself succeeds.
C12_StickyError ==
    /\ ~buf.Error
    /\ [][/\ (pc' = "unpack" /\ pc = "packed") => ~buf'.Error
          /\ (pc' = pc /\ buf.Error) => buf'.Error]_vars

\* C12 witness: an Int read a complete varint from a reader whose flag was
\* already set, and the flag is still set
C12_Witness ==
    /\ Read("Int")
    /\ LastRead.err0
    /\ StoredVarint.err = "nil"
    /\ buf.Pos > LastRead.pos0
    /\ buf.Error

\* C13: the cursor of a reader is 0 at construction, no codec call moves it
\* back, and it stays within 0..len(Data) (violated by StringZ on input with
\* no zero byte, which leaves the cursor at len(Data) + 1)
C13_CursorInvariant ==
    pc \in {"unpack", "unpacked"} =>
        /\ buf.Pos >= 0
        /\ buf.Pos <= Len(buf.Data)
        /\ rlog = <<>> => buf.Pos = 0
        /\ rlog # <<>> => buf.Pos >= LastRead.pos0

\* the raw bytes of the string or byte slice behind a logged call
RawBytes(rec) == IF rec.codec = "ByteSlice" THEN rec.in.elems ELSE rec.in

\* C14: String and ByteSlice write the byte length as a plain unsigned
\* varint and then exactly the raw bytes, and reading consumes the length
\* and exactly that many bytes (violated on the write side: the length goes
\* through Int, a zigzag varint, so a 1-byte string starts with 0x02)
C14_LengthPrefix ==
    /\ (Written("String") \/ Written("ByteSlice")) =>
          LastWrite.bytes =
              UvarintBytes(FromNat(Len(RawBytes(LastWrite)))) \o RawBytes(LastWrite)
    /\ (/\ pc = "unpack"
        /\ src \in {"exact", "extended"}
        /\ idx = 1
        /\ plan[1] \in {"String", "ByteSlice"}) =>
          /\ ~buf.Panic
          /\ ~buf.Error
          /\ buf.Pos = Len(wlog[1].bytes)
          /\ RawBytes([LastRead EXCEPT !.in = LastRead.v]) = RawBytes(wlog[1])

\* the part of a string before its first zero byte (all of it when it has
\* none)
BeforeZero(s) ==
    IF \E i \in 1..Len(s) : s[i] = 0
    THEN SubSeq(s, 1, (CHOOSE i \in 1..Len(s) :
                          s[i] = 0 /\ \A j \in 1..(i - 1) : s[j] # 0) - 1)
    ELSE s

\* the reader has just made call number idx of the traversal, a call of the
\* codec `name`, and began it where the bytes of the writer's call begin
ReadBack(name) ==
    /\ pc = "unpack"
    /\ src \in {"exact", "extended"}
    /\ idx >= 1
    /\ plan[idx] = name
    /\ LastRead.pos0 = Len(Appended(SubSeq(wlog, 1, idx - 1)))

\* C15: StringZ writes the raw bytes and one zero byte; read back, a string
\* with no zero byte comes back whole with the cursor just past the
\* terminator, and one with a zero byte comes back cut before its first zero
\* byte, with no panic and no error.
C15_StringZ ==
    /\ Written("StringZ") => LastWrite.bytes = LastWrite.in \o <<0>>
    /\ ReadBack("StringZ") =>
          /\ ~buf.Panic
          /\ buf.Error = LastRead.err0
          /\ LastRead.v = BeforeZero(wlog[idx].in)
          /\ buf.Pos = LastRead.pos0 + Len(BeforeZero(wlog[idx].in)) + 1

\* C15 witness: a string with an embedded zero byte was read back cut at it
C15_Witness ==
    /\ ReadBack("StringZ")
    /\ wlog[idx].in = <<65, 0, 66>>
    /\ LastRead.v = <<65>>
    /\ ~buf.Error

\* bit j (0..63) of a word, and its i-th group of 7 bits (i >= 1)
BitOf(u, j) == IF j < 64 THEN Bit(u[(j \div 8) + 1], j % 8) ELSE 0
Group(u, i) ==
    BitOf(u, 7 * i - 7) + 2 * BitOf(u, 7 * i - 6) + 4 * BitOf(u, 7 * i - 5)
      + 8 * BitOf(u, 7 * i - 4) + 16 * BitOf(u, 7 * i - 3)
      + 32 * BitOf(u, 7 * i - 2) + 64 * BitOf(u, 7 * i - 1)

\* the least number of 7-bit groups that hold every set bit of u
Groups(u) ==
    CHOOSE n \in 1..10 :
        /\ \A i \in (n + 1)..10 : Group(u, i) = 0
        /\ n > 1 => Group(u, n) # 0

\* the minimal encoding of u: its groups, least significant first, the
\* continuation bit on every byte but the last
Minimal(u) ==
    [i \in 1..Groups(u) |-> Group(u, i) + (IF i < Groups(u) THEN 128 ELSE 0)]

\* C16: VUInt64 writes the minimal encoding of the value, VInt64 that of the
\* zigzag-mapped value, and reading the bytes back yields the value with no
\* error, for 0, 1, -1, the extreme values and the 7-bit group boundaries.
C16_VarintBoundaries ==
    /\ Written("VUInt64") => LastWrite.bytes = Minimal(LastWrite.in)
    /\ Written("VInt64") => LastWrite.bytes = Minimal(ZigZag(LastWrite.in))
    /\ (ReadBack("VUInt64") \/ ReadBack("VInt64")) =>
          /\ ~buf.Error
          /\ LastRead.v = wlog[idx].in
          /\ buf.Pos = LastRead.pos0 + Len(wlog[idx].bytes)

\* C16 witness: 16384 was written by VInt64 in three bytes and read back
C16_Witness ==
    /\ ReadBack("VInt64")
    /\ wlog[idx].in = FromInt(16384)
    /\ wlog[idx].bytes = <<128, 128, 2>>
    /\ LastRead.v = FromInt(16384)

\* the bytes in front of the cursor when the last call of the reader began
Remaining == SubSeq(buf.Data, LastRead.pos0 + 1, Len(buf.Data))

\* a sequence of bytes starts with a complete varint that fits 64 bits: a
\* byte without the continuation bit is among its first ten, and as the
\* tenth byte it is 0 or 1
CompleteVarint(bytes) ==
    \E k \in 1..10 :
        /\ k <= Len(bytes)
        /\ bytes[k] < 128
        /\ \A j \in 1..(k - 1) : bytes[j] >= 128
        /\ k = 10 => bytes[k] <= 1

\* C17: reading, VInt64 and VUInt64 set the error flag when the buffer ends
\* before a byte without the continuation bit (an empty rest included) and
\* when the encoded value overflows 64 bits; on a complete encoding that
\* fits they leave the flag as it was.
C17_VarintFailure ==
    (Read("VInt64") \/ Read("VUInt64")) =>
        /\ ~buf.Panic
        /\ buf.Error = (LastRead.err0 \/ ~CompleteVarint(Remaining))

\* C17 witness: a ten-byte encoding whose last byte is 2 overflowed
C17_Witness ==
    /\ Read("VUInt64")
    /\ Remaining = <<255, 255, 255, 255, 255, 255, 255, 255, 255, 2>>
    /\ ~LastRead.err0
    /\ buf.Error

LexLess(a, b) ==
    \E k \in 1..Len(a) : a[k] < b[k] /\ \A j \in 1..(k - 1) : a[j] = b[j]

\* the writer has written two keys with the codec `name`, one after the other
TwoKeys(name) ==
    pc = "pack" /\ plan = <<name, name>> /\ Len(wlog) = 2

\* C19: when t1.Unix() < t2.Unix(), the 8 bytes UnixTimeKey writes for t1
\* are before those it writes for t2 in byte order, and likewise for
\* UnixTimeMilliKey with UnixMilli (violated by an instant before the epoch
\* against one after it)
C19_SortableKeys ==
    /\ (TwoKeys("UnixTimeKey") /\ SLess(wlog[1].in.sec, wlog[2].in.sec)) =>
          /\ Len(wlog[1].bytes) = 8
          /\ Len(wlog[2].bytes) = 8
          /\ LexLess(wlog[1].bytes, wlog[2].bytes)
    /\ (/\ TwoKeys("UnixTimeMilliKey")
        /\ SLess(UnixMilli(wlog[1].in), UnixMilli(wlog[2].in))) =>
          /\ Len(wlog[1].bytes) = 8
          /\ Len(wlog[2].bytes) = 8
          /\ LexLess(wlog[1].bytes, wlog[2].bytes)

\* C20: ReadBytes(n), n >= 0.  When at least n bytes remain it returns the
\* next n bytes, moves the cursor by n and leaves the error flag as it was;
\* when fewer remain it sets the flag, moves the cursor to the end and
\* returns n bytes: the remaining ones, then zero bytes (violated by a
\* cursor beyond the end and by an n that no allocation holds: the call
\* panics)
C20_ReadBytes ==
    Read("ReadBytes") =>
        LET n == LastRead.in
            left == Len(buf.Data) - LastRead.pos0
        IN  /\ ~buf.Panic
            /\ IsSmall(n)
            /\ IF ToNat(n) <= left
               THEN /\ LastRead.v = SubSeq(buf.Data, LastRead.pos0 + 1,
                                           LastRead.pos0 + ToNat(n))
                    /\ buf.Pos = LastRead.pos0 + ToNat(n)
                    /\ buf.Error = LastRead.err0
               ELSE /\ buf.Error
                    /\ buf.Pos = Len(buf.Data)
                    /\ Len(LastRead.v) = ToNat(n)
                    /\ \A i \in 1..ToNat(n) :
                          LastRead.v[i] = IF i <= left THEN Remaining[i] ELSE 0

\* the bytes the element traversal writes for the elements from index i on,
\* each on a writer of its own
RECURSIVE ElementBytes(_, _)
ElementBytes(elems, i) ==
    IF i > Len(elems) THEN <<>>
    ELSE PackOther(elems[i], NewWriter).buf.Data \o ElementBytes(elems, i + 1)

\* the elements from index i on are what the element traversal reads into a
\* default element, one after the other, from the reader b on; its cursor
\* ends at pos
RECURSIVE FilledInOrder(_, _, _, _)
FilledInOrder(elems, i, b, pos) ==
    IF i > Len(elems) THEN b.Pos = pos
    ELSE With(PackOther(ZeroOther, b), LAMBDA e :
             elems[i] = e.v /\ FilledInOrder(elems, i + 1, e.buf, pos))

\* C21: writing, Slice appends the element count and then what the element
\* traversal writes for each element in index order, so a nil and an empty
\* slice both give the one byte of count 0; reading, it allocates exactly
\* `count` default elements, whatever count is stored, and fills them in
\* index order, and a count of 0 gives an empty slice that is not nil
\* (violated by a stored count that is negative or beyond any allocation:
\* make panics)
C21_Slice ==
    /\ Written("Slice") =>
          /\ LastWrite.bytes =
                VarintBytes(FromNat(Len(LastWrite.in.elems)))
                    \o ElementBytes(LastWrite.in.elems, 1)
          /\ LastWrite.in.elems = <<>> => LastWrite.bytes = <<0>>
    /\ Read("Slice") =>
          LET count == StoredVarint
          IN  /\ buf.Panic => MakeOK(count.x)
              /\ ~buf.Panic =>
                    /\ ~LastRead.v.isNil
                    /\ FromNat(Len(LastRead.v.elems)) = count.x
                    /\ FilledInOrder(LastRead.v.elems, 1, count.buf, buf.Pos)

\* the n pairs of a string key and an int value stored from the reader b on,
\* in input order, and the reader after them
RECURSIVE StoredPairs(_, _)
StoredPairs(b, n) ==
    IF n = 0 THEN [pairs |-> <<>>, buf |-> b]
    ELSE With(String(<<>>, b), LAMBDA k :
         With(GoInt(Zero64, k.buf), LAMBDA v :
         With(StoredPairs(v.buf, n - 1), LAMBDA rest :
             [pairs |-> <<[key |-> k.v, val |-> v.v]>> \o rest.pairs,
              buf |-> rest.buf])))

\* the map kv holds the pairs, the last one of each key
LastWins(kv, pairs) ==
    /\ DOMAIN kv = {pairs[i].key : i \in DOMAIN pairs}
    /\ \A i \in DOMAIN pairs :
          (\A j \in DOMAIN pairs : j > i => pairs[j].key # pairs[i].key)
              => kv[pairs[i].key] = pairs[i].val

Before == [buf EXCEPT !.Pos = LastRead.pos0, !.Error = LastRead.err0]

\* C23: writing, BinaryMarshal sets the error flag and appends no byte when
\* MarshalBinary reports an error, and otherwise appends what ByteSlice
\* writes for the marshaled bytes and leaves the flag as it was; reading, it
\* consumes what ByteSlice consumes and hands the bytes read to
\* UnmarshalBinary, whose error sets the flag
C23_BinaryMarshal ==
    /\ Written("BinaryMarshal") =>
          LET m == MarshalBinary(LastWrite.in)
          IN  IF m.err
              THEN buf.Error /\ LastWrite.bytes = <<>>
              ELSE /\ buf.Error = LastWrite.err0
                   /\ LastWrite.bytes = ByteSlice(GoSlice(m.data), NewWriter).buf.Data
                   /\ Len(LastWrite.bytes) = 1 + Len(m.data)
    /\ Read("BinaryMarshal") =>
          LET stored == ByteSlice(NilSlice, Before)
              u == UnmarshalBinary(LastRead.in, stored.v.elems)
          IN  ~stored.buf.Panic =>
                 /\ ~buf.Panic
                 /\ buf.Pos = stored.buf.Pos
                 /\ buf.Error = (stored.buf.Error \/ u.err)
                 /\ ~u.err => LastRead.v.data = stored.v.elems

\* C23 witness: the empty bytes of a successful MarshalBinary were written
\* as the one byte of length 0 and read back; UnmarshalBinary refused them
\* and the flag of the reader, clear after the read of the bytes, was set
C23_Witness ==
    /\ Decoded(<<"BinaryMarshal">>, "exact")
    /\ ~wlog[1].in.marshalErr
    /\ wlog[1].bytes = <<0>>
    /\ buf.Pos = 1
    /\ ~ByteSlice(NilSlice, Before).buf.Error
    /\ buf.Error

\* the number of bytes in front of the cursor of the reader b
Left(b) == IF b.Pos <= Len(b.Data) THEN Len(b.Data) - b.Pos ELSE 0

\* C24: a read runs no more loop iterations than the input has bytes left:
\* the loop of Slice, one iteration per element of the slice it returns,
\* and the loop of Map run at most once per byte that follows the stored
\* count, and the scan of StringZ ends at the end of the buffer (violated by
\* Slice and Map: both run `count` iterations whatever follows the count)
C24_BoundedByInput ==
    /\ (Read("Slice") /\ ~buf.Panic) =>
          Len(LastRead.v.elems) <= Left(StoredVarint.buf)
    /\ (Read("Map") /\ ~buf.Panic) =>
          ~ULess(FromNat(Left(StoredVarint.buf)), TripCount(StoredVarint.x))
    /\ Read("StringZ") =>
          Len(LastRead.v) <= Left(Before)

\* the calls of a log from the i-th on, run on the reader b with no other
\* reader at work: the values they leave behind the pointer, and the reader
RECURSIVE Alone(_, _, _)
Alone(log, i, b) ==
    IF i > Len(log) THEN [vs |-> <<>>, buf |-> b]
    ELSE With(Codec(log[i].codec, log[i].arg, log[i].in, b), LAMBDA r :
         With(Alone(log, i + 1, r.buf), LAMBDA rest :
             [vs |-> <<r.v>> \o rest.vs, buf |-> rest.buf]))

\* the calls of the log gave the values, and left the reader b as they do
\* when they run alone on the caller's bytes
SameAsAlone(log, b) ==
    LET alone == Alone(log, 1, NewReader(input, b.Cap))
    IN  /\ alone.vs = [i \in 1..Len(log) |-> log[i].v]
        /\ alone.buf = b

\* C25: while FromBytes runs and after it has returned, on any input, the
\* bytes of the caller are what they were when it was called; and of two
\* calls over the same bytes (an encoding, or one followed by more bytes),
\* their codec calls interleaved in any order, each reads the values, moves
\* its cursor, sets its flag and returns as it does when it runs alone
C25_BorrowedInput ==
    /\ pc \in {"unpack", "unpacked"} =>
          /\ buf.Data = input
          /\ peer.buf.Data = input
    /\ (pc \in {"unpack", "unpacked"} /\ src # "hostile") =>
          /\ SameAsAlone(rlog, buf)
          /\ SameAsAlone(peer.log, peer.buf)
    /\ (pc = "unpacked" /\ src # "hostile") =>
          ret.ok = FromBytesInto(Alone(rlog, 1, NewReader(input, buf.Cap)).buf)

\* C25 witness: the second call has read a string and a bool from the bytes
\* while the first call, begun before it, has read the string only
C25_Witness ==
    /\ pc = "unpack"
    /\ src = "exact"
    /\ plan = <<"String", "Bool">>
    /\ idx = 1
    /\ peer.idx = 2
    /\ rlog[1].v = <<65>>
    /\ peer.log[1].v = <<65>>
    /\ peer.log[2].v = TRUE
    /\ buf.Data = <<2, 65, 1>>
    /\ input = <<2, 65, 1>>

====
